---- MODULE Spec2Model ----
(***************************************************************************)
(* State-machine model of the browser dashboard in src/Docs/script.js      *)
(* (class CryptoTradingBot): the socket handlers, the bootstrap fetch of   *)
(* /api/status, the start/stop commands, the activity log and the uptime   *)
(* timer.  Handlers run to completion, one action per handler.             *)
(*                                                                         *)
(* JavaScript values are tagged records [t |-> type, v |-> value]; strings *)
(* are sequences of one-character strings, so that String.includes and     *)
(* parseInt are computed, not assumed.  Emoji of the displayed texts are   *)
(* left out of the literals.                                               *)
(***************************************************************************)
EXTENDS Integers, Sequences, FiniteSets, TLC

VARIABLES
    socket,         \* this.socket: NULL when io() threw in the constructor
    isConnected,    \* this.isConnected
    botRunning,     \* this.botRunning
    instruments,    \* this.instruments
    signalsToday,   \* this.signalsToday
    startTime,      \* this.startTime: NULL or a number (ms)
    dom,            \* the display slots the handlers write
    log,            \* children of #activity-log, newest first
    now,            \* Date.now(), in ms
    backend,        \* the backend's current status: [seq, data]
    socketQueue,    \* status_update messages in flight, in send order
    fetchPending,   \* ids of /api/status requests not yet answered
    fetchInFlight,  \* /api/status responses not yet delivered
    requests,       \* number of /api/status requests issued so far
    emitted,        \* messages the view emitted on the socket, in order
    appended,       \* history: every message passed to addLogEntry, in order
    raised,         \* history: the last status_update handler ended by an uncaught exception
    appliedSeq,     \* history: backend seq of the snapshot whose instruments are stored
    newestSeq,      \* history: largest backend seq of an instruments-carrying snapshot handled
    handledSeq,     \* history: backend seq of the snapshot handled last
    runningSince,   \* history: Date.now() when botRunning last turned true, NULL while it is false
    maxSeen         \* history: most active signals in one instruments-carrying snapshot handled

vars == <<socket, isConnected, botRunning, instruments, signalsToday, startTime,
          dom, log, now, backend, socketQueue, fetchPending, fetchInFlight,
          requests, emitted, appended, raised, appliedSeq, newestSeq, handledSeq,
          runningSince, maxSeen>>

-----------------------------------------------------------------------------
(* Bounds of the model *)

MaxEvents == 3          \* backend status changes, connects and logged events in one run of Spec
MaxAppends == 25        \* log-appending handlers in one run of SpecLog
MaxChanges == 1         \* changes of message kind in one run of SpecLog
MaxSeconds == 1         \* seconds the clock advances in one run
MaxCardUpdates == 1     \* backend status changes in one run of SpecCards
MaxRunEvents == 2       \* bot_started / bot_stopped events in one run of SpecUptime
MaxSteps == 1           \* clock steps of each size in one run of SpecUptime
Epoch == 1000           \* Date.now() at page load, in ms

(* Program constants *)

MaxLogEntries == 20     \* script.js:329
BtcFactor == 50000      \* script.js:173
RateCap == 95           \* script.js:313
RateBase == 75          \* script.js:313
RateStep == 5           \* script.js:313
MsPerSecond == 1000     \* script.js:339

-----------------------------------------------------------------------------
(* JavaScript values *)

UNDEFINED == [t |-> "undefined"]
NULL == [t |-> "null"]
Bool(b) == [t |-> "boolean", v |-> b]
Num(n) == [t |-> "number", v |-> n]
Str(s) == [t |-> "string", v |-> s]
Obj(f) == [t |-> "object", v |-> f]
EmptyObj == Obj([k \in {} |-> NULL])

\* undefined and null have no properties: reading one raises TypeError
IsNullish(x) == x.t \in {"undefined", "null"}

\* ToBoolean
Truthy(x) ==
    CASE x.t = "undefined" -> FALSE
      [] x.t = "null" -> FALSE
      [] x.t = "boolean" -> x.v
      [] x.t = "number" -> x.v # 0
      [] x.t = "string" -> x.v # <<>>
      [] OTHER -> TRUE

\* o[k] / o.k for a non-nullish o
Get(o, k) == IF o.t = "object" /\ k \in DOMAIN o.v THEN o.v[k] ELSE UNDEFINED

\* o?.k
OptGet(o, k) == IF IsNullish(o) THEN UNDEFINED ELSE Get(o, k)

\* a || b
Or(a, b) == IF Truthy(a) THEN a ELSE b

\* Object.values(o) as a set of keys' values (only nullish-ness and counts are read)
ObjectKeys(o) == IF o.t = "object" THEN DOMAIN o.v ELSE {}

\* String.prototype.includes
Includes(s, pat) ==
    \E i \in 0..(Len(s) - Len(pat)) : SubSeq(s, i + 1, i + Len(pat)) = pat

-----------------------------------------------------------------------------
(* String literals of the source, as character sequences *)

S_LOW == <<"L", "O", "W">>
S_MEDIUM == <<"M", "E", "D", "I", "U", "M">>
S_HIGH == <<"H", "I", "G", "H">>
S_VERY_HIGH == <<"V", "E", "R", "Y", " ", "H", "I", "G", "H">>
S_STRONG_BUY == <<"S", "T", "R", "O", "N", "G", " ", "B", "U", "Y">>
S_STRONG_SELL == <<"S", "T", "R", "O", "N", "G", " ", "S", "E", "L", "L">>
S_DO_NOT_TRADE == <<"D", "O", " ", "N", "O", "T", " ", "T", "R", "A", "D", "E">>
S_AVOID == <<"A", "V", "O", "I", "D">>
S_ZERO_PERCENT == <<"0", "%">>

-----------------------------------------------------------------------------
(* Numbers.  A number value holds its magnitude in ten-thousandths, the     *)
(* precision of the quoted prices, so 1.1 is Num(11000).                    *)

Unit == 100 * 100

\* Number.prototype.toFixed(0) of a non-negative number: round to nearest integer
ToFixed0(x) == (x.v + (Unit \div 2)) \div Unit

DigitChars == <<"0", "1", "2", "3", "4", "5", "6", "7", "8", "9">>
IsDigit(c) == \E i \in 1..10 : DigitChars[i] = c
DigitVal(c) == (CHOOSE i \in 1..10 : DigitChars[i] = c) - 1

RECURSIVE LeadingDigits(_, _)
\* value of the longest prefix of digits of s, continuing from acc; -1 when acc = -1
\* and s does not start with a digit (NaN)
LeadingDigits(s, acc) ==
    IF s # <<>> /\ IsDigit(Head(s))
    THEN LeadingDigits(Tail(s), (IF acc < 0 THEN 0 ELSE acc) * 10 + DigitVal(Head(s)))
    ELSE acc

RECURSIVE SkipSpaces(_)
SkipSpaces(s) == IF s # <<>> /\ Head(s) = " " THEN SkipSpaces(Tail(s)) ELSE s

\* parseInt(x) || 0 for the values the cards can hold (script.js:212): a string is
\* read up to its first non-digit after optional blanks and sign, a number gives
\* its integer part, NaN gives 0
ParseIntOr0(x) ==
    IF x.t = "string"
    THEN LET s == SkipSpaces(x.v)
             neg == s # <<>> /\ Head(s) = "-"
             body == IF s # <<>> /\ Head(s) \in {"-", "+"} THEN Tail(s) ELSE s
             n == LeadingDigits(body, -1)
         IN  IF n < 0 THEN 0 ELSE IF neg THEN 0 - n ELSE n
    ELSE IF x.t = "number" THEN x.v \div Unit
    ELSE 0

-----------------------------------------------------------------------------
(* Display slots: a slot shows the page's markup until a handler writes it *)

Markup == [t |-> "markup"]
Shown(x) == [t |-> "text", v |-> x]
MultiplePairs == [t |-> "Multiple Pairs"]
Digits(n) == [t |-> "digits", v |-> n]

InitCard == [price |-> Markup, risk |-> Markup, confidence |-> Markup,
             bar |-> Markup, recommendation |-> Markup]

InitDom == [connectionStatus |-> Markup, controls |-> Markup,
            signalIndicator |-> Markup,
            cards |-> [p \in {"btc", "alt"} |-> InitCard],
            marketStatus |-> Markup, signalsToday |-> Markup,
            successRate |-> Markup, uptime |-> Markup]

\* updateConnectionStatus(status, className)
updateConnectionStatus(d, status, className) ==
    [d EXCEPT !.connectionStatus = Shown([text |-> status, class |-> className])]

\* updateBotControls(): start disabled exactly when the bot is running
updateBotControls(d, running) ==
    [d EXCEPT !.controls = Shown([startDisabled |-> running, stopDisabled |-> ~running])]

\* getStatusColor(status)
getStatusColor(status) ==
    CASE status = "active" -> "#00ff88"
      [] status = "stopped" -> "#ff4757"
      [] status = "analyzing" -> "#ffa500"
      [] OTHER -> "#42f5d7"

\* updateSignalIndicator(text, status)
updateSignalIndicator(d, text, status) ==
    [d EXCEPT !.signalIndicator = Shown([text |-> text, color |-> getStatusColor(status)])]

\* mutant: the HIGH case falls through to the next case
mapRiskLevelFallThrough(riskLevel) ==
    CASE riskLevel = Str(S_LOW) -> [text |-> "LOW RISK", class |-> "low"]
      [] riskLevel = Str(S_MEDIUM) -> [text |-> "MEDIUM RISK", class |-> "medium"]
      [] riskLevel = Str(S_HIGH) -> [text |-> "VERY HIGH RISK", class |-> "very-high"]
      [] riskLevel = Str(S_VERY_HIGH) -> [text |-> "VERY HIGH RISK", class |-> "very-high"]
      [] OTHER -> [text |-> "ANALYZING", class |-> ""]

\* mapRiskLevel(riskLevel): switch by strict equality
mapRiskLevel(riskLevel) ==
    CASE riskLevel = Str(S_LOW) -> [text |-> "LOW RISK", class |-> "low"]
      [] riskLevel = Str(S_MEDIUM) -> [text |-> "MEDIUM RISK", class |-> "medium"]
      [] riskLevel = Str(S_HIGH) -> [text |-> "HIGH RISK", class |-> "high"]
      [] riskLevel = Str(S_VERY_HIGH) -> [text |-> "VERY HIGH RISK", class |-> "very-high"]
      [] OTHER -> [text |-> "ANALYZING", class |-> ""]

\* recommendation.includes is not a function for a truthy value that is no string
mapRecommendationThrows(recommendation) ==
    Truthy(recommendation) /\ recommendation.t # "string"

\* mutant: STRONG SELL is tested before STRONG BUY
mapRecommendationSellFirst(recommendation) ==
    IF ~Truthy(recommendation)
    THEN [text |-> "Collecting market data...", action |-> "", class |-> ""]
    ELSE IF Includes(recommendation.v, S_STRONG_SELL)
    THEN [text |-> "AI recommends:", action |-> "STRONG SELL", class |-> "sell"]
    ELSE IF Includes(recommendation.v, S_STRONG_BUY)
    THEN [text |-> "AI recommends:", action |-> "STRONG BUY", class |-> "buy"]
    ELSE IF Includes(recommendation.v, S_DO_NOT_TRADE) \/ Includes(recommendation.v, S_AVOID)
    THEN [text |-> "AI recommends:", action |-> "DO NOT TRADE", class |-> "wait"]
    ELSE [text |-> "AI is analyzing...", action |-> "WAIT FOR SIGNAL", class |-> "wait"]

\* mapRecommendation(recommendation), when it does not throw
mapRecommendation(recommendation) ==
    IF ~Truthy(recommendation)
    THEN [text |-> "Collecting market data...", action |-> "", class |-> ""]
    ELSE IF Includes(recommendation.v, S_STRONG_BUY)
    THEN [text |-> "AI recommends:", action |-> "STRONG BUY", class |-> "buy"]
    ELSE IF Includes(recommendation.v, S_STRONG_SELL)
    THEN [text |-> "AI recommends:", action |-> "STRONG SELL", class |-> "sell"]
    ELSE IF Includes(recommendation.v, S_DO_NOT_TRADE) \/ Includes(recommendation.v, S_AVOID)
    THEN [text |-> "AI recommends:", action |-> "DO NOT TRADE", class |-> "wait"]
    ELSE [text |-> "AI is analyzing...", action |-> "WAIT FOR SIGNAL", class |-> "wait"]

\* updateCryptoCard(prefix, data)
updateCryptoCard(d, prefix, data) ==
    [d EXCEPT !.cards[prefix] =
        [price |-> IF data.price # MultiplePairs THEN Shown(data.price) ELSE @.price,
         risk |-> Shown(data.risk),
         confidence |-> Shown(data.confidence),
         bar |-> Shown(ParseIntOr0(data.confidence)),
         recommendation |-> Shown(data.recommendation)]]

\* the argument object updateCryptoCards builds for one card (script.js:172-177,
\* 181-186); building it throws when mapRecommendation throws
CardThrows(instData) ==
    mapRecommendationThrows(OptGet(Get(instData, "active_trade"), "recommendation"))

CardData(instData, price) ==
    [price |-> price,
     risk |-> mapRiskLevel(OptGet(Get(instData, "active_trade"), "risk_level")),
     confidence |-> Or(OptGet(Get(instData, "active_trade"), "confidence"), Str(S_ZERO_PERCENT)),
     recommendation |-> mapRecommendation(OptGet(Get(instData, "active_trade"), "recommendation"))]

\* btcData.price ? (btcData.price * 50000).toFixed(0) : '0'
BtcPrice(btcData) ==
    IF Truthy(Get(btcData, "price"))
    THEN Digits(ToFixed0(Num(Get(btcData, "price").v * BtcFactor)))
    ELSE Digits(0)

\* updateCryptoCards(instruments): [dom, raised]
updateCryptoCards(d, instr) ==
    LET btcData == Or(Get(instr, "EUR_USD"), EmptyObj)
        altData == Or(Get(instr, "USD_JPY"), EmptyObj)
    IN  IF CardThrows(btcData) THEN [dom |-> d, raised |-> TRUE]
        ELSE LET d1 == updateCryptoCard(d, "btc", CardData(btcData, BtcPrice(btcData)))
             IN  IF CardThrows(altData) THEN [dom |-> d1, raised |-> TRUE]
                 ELSE [dom |-> updateCryptoCard(d1, "alt", CardData(altData, MultiplePairs)),
                       raised |-> FALSE]

\* Math.min(95, 75 + signalsToday * 5), 0 when there are no signals
SuccessRate(sig) ==
    IF sig > 0
    THEN (IF RateBase + sig * RateStep < RateCap THEN RateBase + sig * RateStep ELSE RateCap)
    ELSE 0

\* the forEach callback reads inst.active_trade: TypeError for a null entry
StatsThrows(instr) == \E k \in ObjectKeys(instr) : IsNullish(instr.v[k])

ActiveSignals(instr) ==
    Cardinality({k \in ObjectKeys(instr) :
        /\ Truthy(Get(instr.v[k], "active_trade"))
        /\ Truthy(Get(Get(instr.v[k], "active_trade"), "recommendation"))})

\* mutant: the count of every snapshot is added to the stored one
RaiseSignalsCumulative(sig, activeSignals) == sig + activeSignals

\* mutant: the count of the latest snapshot replaces the stored one
RaiseSignalsLatest(sig, activeSignals) == activeSignals

\* the new value of this.signalsToday (script.js:300-302)
RaiseSignals(sig, activeSignals) == IF activeSignals > sig THEN activeSignals ELSE sig

\* updateStats(data): [dom, signalsToday, raised]
updateStats(d, data, sig, running) ==
    LET d1 == [d EXCEPT !.marketStatus = Shown(IF running THEN "ACTIVE" ELSE "INACTIVE")]
        instr == Get(data, "instruments")
    IN  IF Truthy(instr) /\ StatsThrows(instr)
        THEN [dom |-> d1, signalsToday |-> sig, raised |-> TRUE]
        ELSE LET sig1 == IF Truthy(instr) THEN RaiseSignals(sig, ActiveSignals(instr)) ELSE sig
             IN  [dom |-> [d1 EXCEPT !.signalsToday = Shown(sig1),
                                     !.successRate = Shown(SuccessRate(sig1))],
                  signalsToday |-> sig1, raised |-> FALSE]

\* mutant: the guard is dropped
HasInstrumentsAlways(data) == TRUE

\* the guard of updateDashboard (script.js:162); reading data.instruments of a
\* nullish data throws before it is evaluated
HasInstruments(data) == Truthy(Get(data, "instruments"))

\* updateDashboard(data): [instruments, dom, signalsToday, raised, applied]
updateDashboard(d, data, instr0, sig, running) ==
    IF IsNullish(data)
    THEN [instruments |-> instr0, dom |-> d, signalsToday |-> sig,
          raised |-> TRUE, applied |-> FALSE]
    ELSE IF ~HasInstruments(data)
    THEN [instruments |-> instr0, dom |-> d, signalsToday |-> sig,
          raised |-> FALSE, applied |-> FALSE]
    ELSE LET instr == Get(data, "instruments")
             c == updateCryptoCards(d, instr)
         IN  IF c.raised
             THEN [instruments |-> instr, dom |-> c.dom, signalsToday |-> sig,
                   raised |-> TRUE, applied |-> TRUE]
             ELSE LET st == updateStats(c.dom, data, sig, running)
                  IN  [instruments |-> instr, dom |-> st.dom,
                       signalsToday |-> st.signalsToday,
                       raised |-> st.raised, applied |-> TRUE]

-----------------------------------------------------------------------------
(* Activity log *)

M_STARTED == "Trading bot started - Analyzing crypto markets"
M_STOPPED == "Trading bot stopped"
M_STARTING == "Starting trading bot..."
M_STOPPING == "Stopping trading bot..."
M_REFUSED == "Cannot start bot - No connection to server"

\* new Date().toLocaleTimeString(): the second of the day
LocaleTime(t) == (t \div MsPerSecond) % (24 * 3600)

\* mutant: the trim leaves one entry too many
KeepOneMore(l) ==
    IF Len(l) > MaxLogEntries + 1 THEN SubSeq(l, 1, MaxLogEntries + 1) ELSE l

RECURSIVE KeepLast(_)
\* while (children.length > 20) removeChild(lastChild)
KeepLast(l) ==
    IF Len(l) > MaxLogEntries THEN KeepLast(SubSeq(l, 1, Len(l) - 1)) ELSE l

\* mutant: appendChild instead of insertBefore
addLogEntryAtEnd(l, t, message) ==
    KeepLast(l \o <<[timestamp |-> LocaleTime(t), message |-> message]>>)

\* addLogEntry(message): insertBefore(entry, firstChild), then trim
addLogEntry(l, t, message) ==
    KeepLast(<<[timestamp |-> LocaleTime(t), message |-> message]>> \o l)

-----------------------------------------------------------------------------
(* Uptime display *)

RECURSIVE ToDigits(_)
\* Number.prototype.toString() of a non-negative integer
ToDigits(n) ==
    IF n < 10 THEN <<DigitChars[n + 1]>> ELSE ToDigits(n \div 10) \o <<DigitChars[(n % 10) + 1]>>

\* String.prototype.padStart(2, '0')
PadStart2(s) == IF Len(s) < 2 THEN <<"0">> \o s ELSE s

\* the text the interval callback writes for an uptime in ms (script.js:339-346)
FormatUptime(uptime) ==
    LET hours == uptime \div (1000 * 60 * 60)
        minutes == (uptime % (1000 * 60 * 60)) \div (1000 * 60)
        seconds == (uptime % (1000 * 60)) \div 1000
    IN  PadStart2(ToDigits(hours)) \o <<":">> \o PadStart2(ToDigits(minutes))
            \o <<":">> \o PadStart2(ToDigits(seconds))

-----------------------------------------------------------------------------
(* Status payloads the backend can produce *)

C_60 == <<"6", "0", "%">>
C_82 == <<"8", "2", "%">>
R_SELL_NOW == <<"S", "T", "R", "O", "N", "G", " ", "S", "E", "L", "L", " ", "n", "o", "w">>
R_BUY == <<"S", "T", "R", "O", "N", "G", " ", "B", "U", "Y">>
R_HOLD == <<"H", "O", "L", "D">>

Trade(risk, confidence, recommendation) ==
    Obj([risk_level |-> risk, confidence |-> confidence, recommendation |-> recommendation])

SellTrade == Trade(Str(S_HIGH), Str(C_60), Str(R_SELL_NOW))
BuyTrade == Trade(Str(S_LOW), Str(C_82), Str(R_BUY))
HoldTrade == Trade(Str(S_MEDIUM), Str(C_60), Str(R_HOLD))
OddTrade == Obj([recommendation |-> Num(5 * Unit)])

\* values of the instruments field
NoSignals == Obj([EUR_USD |-> Obj([price |-> Num(11000), active_trade |-> NULL])])
OneSignal == Obj([EUR_USD |-> Obj([price |-> Num(11000), active_trade |-> SellTrade])])
TwoSignals == Obj([EUR_USD |-> Obj([price |-> Num(12000), active_trade |-> BuyTrade]),
                   USD_JPY |-> Obj([active_trade |-> HoldTrade])])
OddAlt == Obj([EUR_USD |-> Obj([price |-> Num(11000), active_trade |-> SellTrade]),
               USD_JPY |-> Obj([active_trade |-> OddTrade])])

Status(running, instr) == Obj([bot_running |-> Bool(running), instruments |-> instr])
StatusOnly(running) == Obj([bot_running |-> Bool(running)])

\* a payload of null stands for every payload without properties: undefined
\* (an event emitted with no argument) fails at the same property read
Payloads ==
    {Status(FALSE, NoSignals), Status(TRUE, OneSignal), Status(TRUE, TwoSignals),
     StatusOnly(FALSE), Status(TRUE, OddAlt), NULL}

\* the backend's status before its first change
IdleStatus == Status(FALSE, EmptyObj)

\* risk levels and recommendations a status can carry, for the card mappers
L_VERY_HIGH_ENUM == <<"V", "E", "R", "Y", "_", "H", "I", "G", "H">>
L_LOWER_LOW == <<"l", "o", "w">>
R_LOWER_BUY == <<"s", "t", "r", "o", "n", "g", " ", "b", "u", "y">>
R_BLANK == <<" ">>

RiskInputs ==
    {UNDEFINED, NULL, Str(<<>>), Str(S_LOW), Str(S_MEDIUM), Str(S_HIGH),
     Str(S_VERY_HIGH), Str(L_VERY_HIGH_ENUM), Str(L_LOWER_LOW)}

RecommendationParts ==
    {<<>>, S_STRONG_BUY, S_STRONG_SELL, S_DO_NOT_TRADE, S_AVOID, R_HOLD, R_LOWER_BUY, R_BLANK}

RecommendationInputs ==
    {UNDEFINED, NULL} \cup {Str(a \o b) : a \in RecommendationParts, b \in RecommendationParts}

CardTrades ==
    {Trade(r, Str(C_60), Str(R_HOLD)) : r \in RiskInputs}
        \cup {Trade(Str(S_LOW), Str(C_82), x) : x \in RecommendationInputs}

\* one trade shown on both cards, or no trade at all
CardPayloads ==
    {Status(TRUE, Obj([EUR_USD |-> Obj([price |-> Num(11000), active_trade |-> t]),
                       USD_JPY |-> Obj([active_trade |-> t])])) : t \in CardTrades}
        \cup {Status(TRUE, NoSignals)}

-----------------------------------------------------------------------------
(* Initial state: after the constructor (script.js:3-15).  io() either     *)
(* returned a socket or threw, which the constructor reports as a          *)
(* connection failure.                                                     *)

Init ==
    /\ socket \in {Obj([io |-> Bool(TRUE)]), NULL}
    /\ isConnected = FALSE
    /\ botRunning = FALSE
    /\ instruments = EmptyObj
    /\ signalsToday = 0
    /\ startTime = NULL
    /\ runningSince = NULL
    /\ maxSeen = 0
    /\ dom = IF Truthy(socket) THEN InitDom
             ELSE updateConnectionStatus(InitDom, "Connection Failed", "error")
    /\ log = <<>>
    /\ now = Epoch
    /\ backend = [seq |-> 1, data |-> IdleStatus]
    /\ socketQueue = <<>>
    /\ fetchPending = {}
    /\ fetchInFlight = {}
    /\ requests = 0
    /\ emitted = <<>>
    /\ appended = <<>>
    /\ raised = FALSE
    /\ appliedSeq = 0
    /\ newestSeq = 0
    /\ handledSeq = 0

clientVars == <<isConnected, botRunning, instruments, signalsToday, startTime, dom, log>>
backendVars == <<backend, socketQueue, fetchPending, fetchInFlight, requests>>
snapshotVars == <<instruments, signalsToday, appliedSeq, newestSeq, handledSeq, maxSeen>>

\* maxSeen after handling data: a snapshot counts when it carries instruments
Seen(data, m) ==
    IF IsNullish(data) \/ ~Truthy(Get(data, "instruments"))
    THEN m
    ELSE IF ActiveSignals(Get(data, "instruments")) > m
         THEN ActiveSignals(Get(data, "instruments"))
         ELSE m

-----------------------------------------------------------------------------
(* Socket lifecycle (script.js:28-39) *)

\* 'connect': also starts loadInitialStatus, which runs up to its await fetch
Connect ==
    /\ Truthy(socket)
    /\ ~isConnected
    /\ isConnected' = TRUE
    /\ dom' = updateConnectionStatus(dom, "Connected", "connected")
    /\ requests' = requests + 1
    /\ fetchPending' = fetchPending \cup {requests + 1}
    /\ UNCHANGED <<socket, botRunning, startTime, runningSince, log, now, backend, socketQueue,
                   fetchInFlight, emitted, appended, raised, snapshotVars>>

\* mutant: losing the connection marks the bot stopped
DisconnectStopping ==
    /\ isConnected
    /\ isConnected' = FALSE
    /\ botRunning' = FALSE
    /\ startTime' = NULL
    /\ runningSince' = NULL
    /\ dom' = updateConnectionStatus(dom, "Disconnected", "error")
    /\ socketQueue' = <<>>
    /\ UNCHANGED <<socket, log, now, backend, fetchPending,
                   fetchInFlight, requests, emitted, appended, raised, snapshotVars>>

\* 'disconnect': pushed messages still in flight are lost with the connection
Disconnect ==
    /\ isConnected
    /\ isConnected' = FALSE
    /\ dom' = updateConnectionStatus(dom, "Disconnected", "error")
    /\ socketQueue' = <<>>
    /\ UNCHANGED <<socket, botRunning, startTime, runningSince, log, now, backend, fetchPending,
                   fetchInFlight, requests, emitted, appended, raised, snapshotVars>>

-----------------------------------------------------------------------------
(* Backend and transport *)

\* the backend's status changes; it pushes the new status to a connected view
BackendUpdate(p) ==
    /\ backend' = [seq |-> backend.seq + 1, data |-> p]
    /\ socketQueue' = IF isConnected THEN Append(socketQueue, backend') ELSE socketQueue
    /\ UNCHANGED <<socket, clientVars, runningSince, now, fetchPending, fetchInFlight, requests,
                   emitted, appended, raised, appliedSeq, newestSeq, handledSeq, maxSeen>>

\* the backend answers request id with its current status
ServeStatus(id) ==
    /\ id \in fetchPending
    /\ fetchPending' = fetchPending \ {id}
    /\ fetchInFlight' = fetchInFlight \cup {[id |-> id, seq |-> backend.seq, data |-> backend.data]}
    /\ UNCHANGED <<socket, clientVars, runningSince, now, backend, socketQueue, requests,
                   emitted, appended, raised, appliedSeq, newestSeq, handledSeq, maxSeen>>

-----------------------------------------------------------------------------
(* Snapshot handlers *)

\* 'status_update' (script.js:41-43)
StatusUpdate ==
    /\ isConnected
    /\ socketQueue # <<>>
    /\ LET m == Head(socketQueue)
           r == updateDashboard(dom, m.data, instruments, signalsToday, botRunning)
       IN  /\ instruments' = r.instruments
           /\ dom' = r.dom
           /\ signalsToday' = r.signalsToday
           /\ raised' = r.raised
           /\ appliedSeq' = IF r.applied THEN m.seq ELSE appliedSeq
           /\ newestSeq' = IF r.applied /\ m.seq > newestSeq THEN m.seq ELSE newestSeq
           /\ handledSeq' = m.seq
           /\ maxSeen' = Seen(m.data, maxSeen)
    /\ socketQueue' = Tail(socketQueue)
    /\ UNCHANGED <<socket, isConnected, botRunning, startTime, runningSince, log, now, backend,
                   fetchPending, fetchInFlight, requests, emitted, appended>>

\* loadInitialStatus after its awaits (script.js:78-87); an exception is caught
\* (script.js:88-90) and leaves what was written before it
BootstrapResponse(resp) ==
    /\ resp \in fetchInFlight
    /\ fetchInFlight' = fetchInFlight \ {resp}
    /\ IF IsNullish(resp.data)
       THEN /\ handledSeq' = resp.seq
            /\ UNCHANGED <<botRunning, startTime, runningSince, dom, instruments,
                           signalsToday, appliedSeq, newestSeq, maxSeen>>
       ELSE LET running == Truthy(Get(resp.data, "bot_running"))
                d1 == IF running
                      THEN updateSignalIndicator(dom, "Bot Active - Scanning Markets...", "active")
                      ELSE dom
                r == updateDashboard(updateBotControls(d1, running \/ botRunning), resp.data,
                                     instruments, signalsToday, running \/ botRunning)
            IN  /\ botRunning' = (running \/ botRunning)
                /\ startTime' = IF running THEN Num(now) ELSE startTime
                /\ runningSince' = IF running /\ ~botRunning THEN Num(now) ELSE runningSince
                /\ maxSeen' = Seen(resp.data, maxSeen)
                /\ instruments' = r.instruments
                /\ dom' = r.dom
                /\ signalsToday' = r.signalsToday
                /\ appliedSeq' = IF r.applied THEN resp.seq ELSE appliedSeq
                /\ newestSeq' = IF r.applied /\ resp.seq > newestSeq THEN resp.seq ELSE newestSeq
                /\ handledSeq' = resp.seq
    /\ UNCHANGED <<socket, isConnected, log, now, backend, socketQueue, fetchPending,
                   requests, emitted, appended, raised>>

\* fetch or response.json() rejects: caught, console.error only
BootstrapFailure(id) ==
    /\ id \in fetchPending
    /\ fetchPending' = fetchPending \ {id}
    /\ UNCHANGED <<socket, clientVars, runningSince, now, backend, socketQueue, fetchInFlight,
                   requests, emitted, appended, raised, appliedSeq, newestSeq, handledSeq, maxSeen>>

-----------------------------------------------------------------------------
(* Run-state events (script.js:45-59); the socket delivers them only while  *)
(* it is connected                                                          *)

BotStarted ==
    /\ isConnected
    /\ botRunning' = TRUE
    /\ startTime' = Num(now)
    /\ runningSince' = IF botRunning THEN runningSince ELSE Num(now)
    /\ dom' = updateSignalIndicator(updateBotControls(dom, TRUE),
                                    "Bot Active - Scanning Markets...", "active")
    /\ log' = addLogEntry(log, now, M_STARTED)
    /\ appended' = Append(appended, M_STARTED)
    /\ UNCHANGED <<socket, isConnected, now, backendVars, emitted, raised, snapshotVars>>

\* mutant: the stop also resets the signal counter
BotStoppedResetting ==
    /\ isConnected
    /\ botRunning' = FALSE
    /\ startTime' = NULL
    /\ runningSince' = NULL
    /\ signalsToday' = 0
    /\ dom' = updateSignalIndicator(updateBotControls(dom, FALSE), "Bot Stopped", "stopped")
    /\ log' = addLogEntry(log, now, M_STOPPED)
    /\ appended' = Append(appended, M_STOPPED)
    /\ UNCHANGED <<socket, isConnected, now, backendVars, emitted, raised, instruments,
                   appliedSeq, newestSeq, handledSeq, maxSeen>>

\* mutant: the stop leaves this.startTime as it is
BotStoppedKeepingTime ==
    /\ isConnected
    /\ botRunning' = FALSE
    /\ runningSince' = NULL
    /\ dom' = updateSignalIndicator(updateBotControls(dom, FALSE), "Bot Stopped", "stopped")
    /\ log' = addLogEntry(log, now, M_STOPPED)
    /\ appended' = Append(appended, M_STOPPED)
    /\ UNCHANGED <<socket, isConnected, startTime, now, backendVars, emitted, raised,
                   snapshotVars>>

BotStopped ==
    /\ isConnected
    /\ botRunning' = FALSE
    /\ startTime' = NULL
    /\ runningSince' = NULL
    /\ dom' = updateSignalIndicator(updateBotControls(dom, FALSE), "Bot Stopped", "stopped")
    /\ log' = addLogEntry(log, now, M_STOPPED)
    /\ appended' = Append(appended, M_STOPPED)
    /\ UNCHANGED <<socket, isConnected, now, backendVars, emitted, raised, snapshotVars>>

-----------------------------------------------------------------------------
(* Commands (script.js:93-107) *)

\* mutant: the connection check is dropped
startBotUnchecked ==
    /\ emitted' = Append(emitted, "start_bot")
    /\ log' = addLogEntry(log, now, M_STARTING)
    /\ appended' = Append(appended, M_STARTING)
    /\ UNCHANGED <<socket, isConnected, botRunning, startTime, runningSince, dom, now, backendVars,
                   raised, snapshotVars>>

startBot ==
    /\ IF isConnected /\ Truthy(socket)
       THEN /\ emitted' = Append(emitted, "start_bot")
            /\ log' = addLogEntry(log, now, M_STARTING)
            /\ appended' = Append(appended, M_STARTING)
       ELSE /\ emitted' = emitted
            /\ log' = addLogEntry(log, now, M_REFUSED)
            /\ appended' = Append(appended, M_REFUSED)
    /\ UNCHANGED <<socket, isConnected, botRunning, startTime, runningSince, dom, now, backendVars,
                   raised, snapshotVars>>

\* mutant: a stop while disconnected is refused in the log, as a start is
stopBotRefusing ==
    /\ IF isConnected /\ Truthy(socket)
       THEN /\ emitted' = Append(emitted, "stop_bot")
            /\ log' = addLogEntry(log, now, M_STOPPING)
            /\ appended' = Append(appended, M_STOPPING)
       ELSE /\ emitted' = emitted
            /\ log' = addLogEntry(log, now, M_REFUSED)
            /\ appended' = Append(appended, M_REFUSED)
    /\ UNCHANGED <<socket, isConnected, botRunning, startTime, runningSince, dom, now, backendVars,
                   raised, snapshotVars>>

stopBot ==
    /\ IF isConnected /\ Truthy(socket)
       THEN /\ emitted' = Append(emitted, "stop_bot")
            /\ log' = addLogEntry(log, now, M_STOPPING)
            /\ appended' = Append(appended, M_STOPPING)
       ELSE UNCHANGED <<emitted, log, appended>>
    /\ UNCHANGED <<socket, isConnected, botRunning, startTime, runningSince, dom, now, backendVars,
                   raised, snapshotVars>>

-----------------------------------------------------------------------------
(* Uptime timer (script.js:335-350) and the clock *)

Tick ==
    /\ dom' = IF Truthy(startTime)
              THEN [dom EXCEPT !.uptime = Shown(FormatUptime(now - startTime.v))]
              ELSE dom
    /\ UNCHANGED <<socket, isConnected, botRunning, startTime, runningSince, log, now, backendVars,
                   emitted, appended, raised, snapshotVars>>

AdvanceClock(d) ==
    /\ now + d <= Epoch + MaxSeconds * MsPerSecond
    /\ now' = now + d
    /\ UNCHANGED <<socket, clientVars, runningSince, backendVars, emitted, appended, raised,
                   appliedSeq, newestSeq, handledSeq, maxSeen>>

\* the clock moves on by d ms
Elapse(d) ==
    /\ now' = now + d
    /\ UNCHANGED <<socket, clientVars, runningSince, backendVars, emitted, appended, raised,
                   snapshotVars>>

\* steps of the clock for the uptime display: a second, an hour and a minute,
\* a hundred hours
ClockSteps == <<MsPerSecond, 3660 * MsPerSecond, 360000 * MsPerSecond>>

\* how many steps of size ClockSteps[i] the clock has made since Epoch
Taken(i) ==
    (IF i < Len(ClockSteps) THEN (now - Epoch) % ClockSteps[i + 1] ELSE now - Epoch)
        \div ClockSteps[i]

-----------------------------------------------------------------------------
(* Specifications *)

\* what a run has used of its budget of environment events
Used == (backend.seq - 1) + requests + Len(appended)

Next ==
    \/ (Used < MaxEvents /\ Connect)
    \/ Disconnect
    \/ (Used < MaxEvents /\ \E p \in Payloads : BackendUpdate(p))
    \/ \E id \in fetchPending : ServeStatus(id)
    \/ StatusUpdate
    \/ \E resp \in fetchInFlight : BootstrapResponse(resp)
    \/ \E id \in fetchPending : BootstrapFailure(id)
    \/ (Used < MaxEvents /\ BotStarted)
    \/ (Used < MaxEvents /\ BotStopped)
    \/ (Used < MaxEvents /\ startBot)
    \/ (Used < MaxEvents /\ stopBot)
    \/ Tick
    \/ AdvanceClock(MsPerSecond)

Spec == Init /\ [][Next]_vars

\* number of places where consecutive messages differ
Changes(h) == Cardinality({i \in 1..(Len(h) - 1) : h[i] # h[i + 1]})

\* a run of SpecLog: up to MaxAppends logged events, in blocks of equal messages
LogBudget == Len(appended') <= MaxAppends /\ Changes(appended') <= MaxChanges

\* the log under long runs of the handlers that write it
NextLog ==
    \/ (requests <= MaxChanges /\ Connect)
    \/ Disconnect
    \/ (BotStarted /\ LogBudget)
    \/ (BotStopped /\ LogBudget)
    \/ (startBot /\ LogBudget)
    \/ (stopBot /\ LogBudget)

SpecLog == Init /\ [][NextLog]_vars

\* the cards under pushed statuses that vary the risk level and the recommendation
NextCards ==
    \/ Connect
    \/ (backend.seq <= MaxCardUpdates /\ \E p \in CardPayloads : BackendUpdate(p))
    \/ StatusUpdate

SpecCards == Init /\ [][NextCards]_vars

\* the uptime display over hours of running
NextUptime ==
    \/ Connect
    \/ (Len(appended) < MaxRunEvents /\ BotStarted)
    \/ (Len(appended) < MaxRunEvents /\ BotStopped)
    \/ Tick
    \/ \E i \in 1..Len(ClockSteps) : Taken(i) < MaxSteps /\ Elapse(ClockSteps[i])

SpecUptime == Init /\ [][NextUptime]_vars

-----------------------------------------------------------------------------
(* Properties *)

Min(a, b) == IF a < b THEN a ELSE b

\* a payload without an instruments field
NoInstrumentsField(data) == IsNullish(data) \/ Get(data, "instruments").t = "undefined"

\* a payload that carries a bot_running flag
HasRunFlag(data) == ~IsNullish(data) /\ Get(data, "bot_running").t = "boolean"

\* C1: the stored instruments are those of the newest instruments-carrying
\* snapshot handled so far; an older snapshot never replaces a newer one.
C1_NoStaleOverwrite == appliedSeq >= newestSeq

\* C2: no step of any handler lowers signalsToday.
C2_SignalsTodayMonotonic == [][signalsToday' >= signalsToday]_vars

\* C2 witness: a snapshot with fewer active signals than signalsToday was applied.
C2_LowerCountApplied ==
    /\ appliedSeq = handledSeq
    /\ appliedSeq > 1
    /\ ~raised
    /\ ActiveSignals(instruments) < signalsToday

\* C3: the activity log never holds more than 20 entries.
C3_LogAtMostTwenty == Len(log) <= MaxLogEntries

\* C3 witness: more than 20 messages were appended and the log holds 20.
C3_LogFull == Len(appended) > MaxLogEntries /\ Len(log) = MaxLogEntries

\* C4: the log is the last min(n, 20) appended messages, newest first, and each
\* append puts its entry in front of the entries kept, which stay as they were.
C4_LogIsLastTwentyNewestFirst ==
    /\ [](/\ Len(log) = Min(Len(appended), MaxLogEntries)
          /\ \A i \in 1..Len(log) : log[i].message = appended[Len(appended) - i + 1])
    /\ [][appended' # appended =>
            /\ Len(appended') = Len(appended) + 1
            /\ log'[1].message = appended'[Len(appended')]
            /\ Tail(log') = SubSeq(log, 1, Len(log') - 1)]_vars

\* C4 witness: 25 appends of mixed messages; the log is m25..m6.
C4_TwentyFiveAppends ==
    /\ Len(appended) = 25
    /\ Len(log) = 20
    /\ log[1].message = appended[25]
    /\ log[20].message = appended[6]
    /\ appended[1] # appended[25]

\* C5: startTime changes only in a step that turns botRunning on (it is then
\* set) or off (it is then cleared).
C5_StartTimeOnlyOnTransitions ==
    [][startTime' # startTime =>
        \/ (~botRunning /\ botRunning' /\ startTime'.t = "number")
        \/ (botRunning /\ ~botRunning' /\ startTime'.t = "null")]_vars

\* C6: start_bot is emitted only by startBot while connected; startBot while
\* disconnected emits nothing, puts the refusal in front of the log and leaves
\* botRunning, startTime, instruments and signalsToday alone.
C6_StartOnlyWhenConnected ==
    [][/\ (Len(emitted') > Len(emitted) /\ emitted'[Len(emitted')] = "start_bot")
            => (isConnected /\ startBot)
       /\ (startBot /\ ~isConnected) =>
            /\ emitted' = emitted
            /\ Len(appended') = Len(appended) + 1
            /\ log'[1].message = M_REFUSED
            /\ Tail(log') = SubSeq(log, 1, Len(log') - 1)
            /\ UNCHANGED <<botRunning, startTime, instruments, signalsToday>>]_vars

\* C6 witness: a start was refused and nothing was emitted.
C6_StartRefused == log # <<>> /\ log[1].message = M_REFUSED /\ emitted = <<>>

\* C7: stopBot while disconnected changes nothing at all; stopBot while
\* connected emits exactly one stop_bot.
C7_StopSilentWhenDisconnected ==
    [][/\ (stopBot /\ ~isConnected) => UNCHANGED vars
       /\ (stopBot /\ isConnected) => emitted' = Append(emitted, "stop_bot")]_vars

\* C7 witness: a stop was emitted while connected, the view is now disconnected
\* and a stopBot here is a step that changes nothing.
C7_StopWhileDisconnected ==
    /\ ~isConnected
    /\ emitted # <<>>
    /\ emitted[Len(emitted)] = "stop_bot"
    /\ ENABLED (stopBot /\ UNCHANGED vars)

\* C8: handling a snapshot without an instruments field leaves the stored
\* instruments, both cards and signalsToday as they were.
C8_NoInstrumentsNoChange ==
    [][/\ (StatusUpdate /\ NoInstrumentsField(Head(socketQueue).data))
            => (UNCHANGED <<instruments, signalsToday>> /\ dom'.cards = dom.cards)
       /\ \A resp \in fetchInFlight :
            (BootstrapResponse(resp) /\ NoInstrumentsField(resp.data))
                => (UNCHANGED <<instruments, signalsToday>> /\ dom'.cards = dom.cards)]_vars

\* C8 witness: after instruments were applied and rendered, the backend's current
\* status, which has no instruments field, was the last one handled.
C8_BareStatusHandled ==
    /\ appliedSeq > 1
    /\ handledSeq > appliedSeq
    /\ backend.seq = handledSeq
    /\ backend.data = StatusOnly(FALSE)
    /\ instruments # EmptyObj
    /\ dom.cards["btc"].risk # Markup

\* C9: the status_update handler never ends by an uncaught exception.
C9_StatusUpdateNeverRaises == ~raised

\* C10: after a snapshot that carries bot_running = b is handled, botRunning = b.
C10_RunFlagFollowsSnapshot ==
    [][/\ (StatusUpdate /\ HasRunFlag(Head(socketQueue).data))
            => botRunning' = Get(Head(socketQueue).data, "bot_running").v
       /\ \A resp \in fetchInFlight :
            (BootstrapResponse(resp) /\ HasRunFlag(resp.data))
                => botRunning' = Get(resp.data, "bot_running").v]_vars

\* the trade behind a card in the backend's current status, as the card reads it
ShownTrade(key) ==
    Get(Or(Get(Get(backend.data, "instruments"), key), EmptyObj), "active_trade")

\* the backend's current status was the last one handled, and it was rendered
CardsRendered == backend.seq > 1 /\ handledSeq = backend.seq /\ appliedSeq = backend.seq /\ ~raised

CardKey == [p \in {"btc", "alt"} |-> IF p = "btc" THEN "EUR_USD" ELSE "USD_JPY"]

NeutralRisk == [text |-> "ANALYZING", class |-> ""]

\* the classification C11 states: LOW, MEDIUM, HIGH, VERY_HIGH
RiskAsClaimed(level) ==
    CASE level = Str(S_LOW) -> [text |-> "LOW RISK", class |-> "low"]
      [] level = Str(S_MEDIUM) -> [text |-> "MEDIUM RISK", class |-> "medium"]
      [] level = Str(S_HIGH) -> [text |-> "HIGH RISK", class |-> "high"]
      [] level = Str(L_VERY_HIGH_ENUM) -> [text |-> "VERY HIGH RISK", class |-> "very-high"]
      [] OTHER -> NeutralRisk

\* the classification with the fourth level spelled 'VERY HIGH'
RiskAsAmended(level) ==
    CASE level = Str(S_LOW) -> [text |-> "LOW RISK", class |-> "low"]
      [] level = Str(S_MEDIUM) -> [text |-> "MEDIUM RISK", class |-> "medium"]
      [] level = Str(S_HIGH) -> [text |-> "HIGH RISK", class |-> "high"]
      [] level = Str(S_VERY_HIGH) -> [text |-> "VERY HIGH RISK", class |-> "very-high"]
      [] OTHER -> NeutralRisk

RecommendationAsClaimed(r) ==
    IF r.t # "string" \/ r.v = <<>>
    THEN [text |-> "Collecting market data...", action |-> "", class |-> ""]
    ELSE CASE Includes(r.v, S_STRONG_BUY) ->
                [text |-> "AI recommends:", action |-> "STRONG BUY", class |-> "buy"]
           [] ~Includes(r.v, S_STRONG_BUY) /\ Includes(r.v, S_STRONG_SELL) ->
                [text |-> "AI recommends:", action |-> "STRONG SELL", class |-> "sell"]
           [] /\ ~Includes(r.v, S_STRONG_BUY) /\ ~Includes(r.v, S_STRONG_SELL)
              /\ (Includes(r.v, S_DO_NOT_TRADE) \/ Includes(r.v, S_AVOID)) ->
                [text |-> "AI recommends:", action |-> "DO NOT TRADE", class |-> "wait"]
           [] OTHER ->
                [text |-> "AI is analyzing...", action |-> "WAIT FOR SIGNAL", class |-> "wait"]

\* C12: every rendered card shows exactly the class of the first keyword, in the
\* order STRONG BUY, STRONG SELL, DO NOT TRADE or AVOID, that its recommendation
\* contains, the fallback for another non-empty string, and the placeholder for
\* an absent or empty one.
C12_RecommendationFirstMatch ==
    CardsRendered =>
        \A p \in {"btc", "alt"} :
            LET r == OptGet(ShownTrade(CardKey[p]), "recommendation")
            IN  (r.t = "string" \/ IsNullish(r)) =>
                    dom.cards[p].recommendation = Shown(RecommendationAsClaimed(r))

\* C12 witness: a recommendation with STRONG SELL before STRONG BUY was rendered
\* as a buy.
C12_BuyWinsOverSell ==
    /\ CardsRendered
    /\ OptGet(ShownTrade("USD_JPY"), "recommendation") = Str(S_STRONG_SELL \o S_STRONG_BUY)
    /\ dom.cards["alt"].recommendation.v.class = "buy"

\* n in decimal, at least two digits (n < 1000)
TwoDigits(n) ==
    IF n < 100
    THEN <<DigitChars[(n \div 10) + 1], DigitChars[(n % 10) + 1]>>
    ELSE <<DigitChars[(n \div 100) + 1], DigitChars[((n \div 10) % 10) + 1], DigitChars[(n % 10) + 1]>>

\* HH:MM:SS for s whole seconds
Clock(s) ==
    TwoDigits(s \div 3600) \o <<":">> \o TwoDigits((s % 3600) \div 60) \o <<":">> \o TwoDigits(s % 60)

\* C13: a tick while the bot is running shows HH:MM:SS for the whole seconds
\* elapsed since the bot became running, hours in full.
C13_UptimeSinceRunning ==
    [][(Tick /\ botRunning /\ runningSince # NULL)
        => dom'.uptime = Shown(Clock((now - runningSince.v) \div MsPerSecond))]_vars

\* a tick while startTime is set shows HH:MM:SS for the whole seconds elapsed
\* since startTime, hours in full
UptimeSinceStartTime ==
    [][(Tick /\ startTime # NULL)
        => dom'.uptime = Shown(Clock((now - startTime.v) \div MsPerSecond))]_vars

\* 3661 s of uptime are shown as 01:01:01, and more than 99 hours in full
UptimeShown3661 == dom.uptime = Shown(<<"0", "1", ":", "0", "1", ":", "0", "1">>)
UptimeShown100h == dom.uptime = Shown(<<"1", "0", "0", ":", "0", "0", ":", "0", "0">>)

\* C14: startBot, stopBot, connect, disconnect, status_update and the tick leave
\* botRunning and startTime unchanged; only bot_started, bot_stopped and a
\* bootstrap response change either.
C14_RunStateFrame ==
    [][/\ (startBot \/ stopBot \/ Connect \/ Disconnect \/ StatusUpdate \/ Tick)
            => UNCHANGED <<botRunning, startTime>>
       /\ (botRunning' # botRunning \/ startTime' # startTime)
            => (BotStarted \/ BotStopped \/ \E resp \in fetchInFlight : BootstrapResponse(resp))]_vars

\* C14 witness: after a start command and its confirmation the connection was
\* lost, and the bot is still shown running with its start time.
C14_RunningWhileDisconnected ==
    /\ ~isConnected
    /\ emitted = <<"start_bot">>
    /\ botRunning
    /\ startTime.t = "number"

\* C15: the tick, connect, disconnect, bot_started, bot_stopped, startBot and
\* stopBot leave signalsToday and the stored instruments unchanged; only the
\* handling of a snapshot with an instruments field changes either.
C15_SnapshotFrame ==
    [][/\ (Tick \/ Connect \/ Disconnect \/ BotStarted \/ BotStopped \/ startBot \/ stopBot)
            => UNCHANGED <<signalsToday, instruments>>
       /\ (signalsToday' # signalsToday \/ instruments' # instruments)
            => \/ (StatusUpdate /\ ~NoInstrumentsField(Head(socketQueue).data))
               \/ \E resp \in fetchInFlight :
                    BootstrapResponse(resp) /\ ~NoInstrumentsField(resp.data)]_vars

\* C15 witness: a snapshot with a signal was applied and the bot then stopped,
\* and the counter and the instruments are still there.
C15_KeptAcrossStop ==
    /\ appended # <<>>
    /\ appended[Len(appended)] = M_STOPPED
    /\ signalsToday > 0
    /\ instruments = Get(backend.data, "instruments")

\* what C16 compares of the result of updateDashboard
Rendered(r) ==
    [instruments |-> r.instruments, signalsToday |-> r.signalsToday, cards |-> r.dom.cards,
     marketStatus |-> r.dom.marketStatus, successRate |-> r.dom.successRate]

\* C16: in every reachable state, for every snapshot and either value of
\* botRunning, applying the snapshot a second time leaves the stored
\* instruments, signalsToday, the cards, the market status and the success rate
\* as the first application left them.
C16_ApplyTwiceIsApplyOnce ==
    \A p \in Payloads \cup {backend.data} : \A running \in BOOLEAN :
        LET r1 == updateDashboard(dom, p, instruments, signalsToday, running)
            r2 == updateDashboard(r1.dom, p, r1.instruments, r1.signalsToday, running)
        IN  Rendered(r2) = Rendered(r1)

\* C16 witness: a snapshot with two signals was handled and rendered, and the
\* state shown is what handling it again produces.
C16_SnapshotApplied ==
    /\ CardsRendered
    /\ signalsToday = 2
    /\ dom.cards["btc"].risk # Shown(NeutralRisk)
    /\ Rendered(updateDashboard(dom, backend.data, instruments, signalsToday, botRunning))
            = Rendered([instruments |-> instruments, signalsToday |-> signalsToday, dom |-> dom])

\* C17: startTime is set exactly when botRunning is true, and a tick writes the
\* uptime display while botRunning is true and changes nothing while it is false.
C17_StartTimeIffRunning ==
    /\ [](Truthy(startTime) <=> botRunning)
    /\ [][Tick => IF botRunning
                  THEN dom'.uptime = Shown(Clock((now - startTime.v) \div MsPerSecond))
                  ELSE UNCHANGED vars]_vars

\* C17 witness: the bot ran, a tick showed its uptime, and after the stop the
\* display keeps that value while startTime is cleared.
C17_UptimeFrozen ==
    /\ ~botRunning
    /\ startTime = NULL
    /\ dom.uptime # Markup
    /\ ENABLED (Tick /\ UNCHANGED vars)

\* C18: signalsToday is the largest number of active signals in any one
\* instruments-carrying snapshot handled so far, 0 when none was handled.
C18_SignalsTodayIsMaxSeen == signalsToday = maxSeen

\* C19: once the market status has been rendered, it shows ACTIVE exactly when
\* botRunning is true.
C19_MarketStatusFollowsRunFlag ==
    dom.marketStatus # Markup
        => dom.marketStatus = Shown(IF botRunning THEN "ACTIVE" ELSE "INACTIVE")

====
